---- MODULE Spec2Model ----
(***************************************************************************)
(* b2tag: checksums and modification times of files, kept in extended      *)
(* attributes.  The model follows src/b2tag.c (main), src/file.c           *)
(* (process_path, check_file, get_file_state), src/xa.c (the attribute     *)
(* store), src/hash.c (fhash, bin2hex) and src/utilities.c (ts_compare).   *)
(*                                                                         *)
(* One regular file is modelled: its content, its mtime and its extended   *)
(* attributes.  Every path on the command line names that file.  The       *)
(* environment (other programs) may change the file between two checks.    *)
(* A text is a sequence of one-character strings.  The build is the one    *)
(* the source gives: assert() is active (NDEBUG is not defined).           *)
(***************************************************************************)
EXTENDS Integers, Sequences, FiniteSets, TLC

(* ------------------------------ bounds --------------------------------- *)

\* Largest tv_sec of a live modification time (seconds run over -1..MaxSec).
MaxSec == 1

\* Number of different file contents.
MaxContent == 2

\* Largest number of paths on one command line.
MaxArgs == 2

\* Digest size in bytes of the modelled algorithm (get_alg_size).
HashBytes == 2

\* Largest number of --quiet options on one command line.
MaxQuiet == 2

\* Largest number of digits after the '.' of a stored timestamp.
MaxFraction == 11

\* Number of distinct directories and largest number of entries readdir
\* returns for one directory.
MaxDirs == 2

MaxEntries == 2

(* ------------------------- program constants --------------------------- *)

\* sizeof(buf) in xa_read_timestamp.
TS_BUF_SIZE == 32

\* EVP_MAX_MD_SIZE, through MAX_HASH_SIZE.
MAX_HASH_SIZE == 64

MAX_HASH_STRING_LENGTH == 2 * MAX_HASH_SIZE

\* tv_nsec values are below this.
NSEC_PER_SEC == 1000000000

\* The largest long.  The build has 64-bit longs; the model keeps 31 bits,
\* the widest its integers allow with room for every tv_nsec: LONG_MIN is
\* -LONG_MAX - 1 and an unsigned long runs over 0..2 * LONG_MAX + 1.
LONG_MAX == 1073741823

\* Exit status of a process killed by abort() (128 + SIGABRT).
ABORT_STATUS == 134

\* parents->allocated += 16.
ALLOC_STEP == 16

TIMESTAMP_XATTR == "user.shatag.ts"

get_alg_name == "blake2b512"

CHECKSUM_XATTR == "user.shatag.blake2b512"

get_alg_size == HashBytes

(* ------------------------------ characters ----------------------------- *)

Digits == <<"0", "1", "2", "3", "4", "5", "6", "7", "8", "9">>

hexval == <<"0", "1", "2", "3", "4", "5", "6", "7", "8", "9", "a", "b", "c", "d", "e", "f">>

UpperHex == <<"0", "1", "2", "3", "4", "5", "6", "7", "8", "9", "A", "B", "C", "D", "E", "F">>

isdigit(c) == \E i \in 1..10 : Digits[i] = c

DigitVal(c) == (CHOOSE i \in 1..10 : Digits[i] = c) - 1

isxdigit(c) == \E i \in 1..16 : hexval[i] = c \/ UpperHex[i] = c

isupper(c) == \E i \in 11..16 : UpperHex[i] = c

tolower(c) == IF isupper(c) THEN hexval[CHOOSE i \in 11..16 : UpperHex[i] = c] ELSE c

toupper(c) == IF \E i \in 11..16 : hexval[i] = c THEN UpperHex[CHOOSE i \in 11..16 : hexval[i] = c] ELSE c

(* ------------------------------ hash.c --------------------------------- *)

\* The raw digest of a content: HashBytes bytes, different for different
\* contents (a cryptographic hash without collisions in the model).
RawHash(c) == [i \in 1..HashBytes |-> (171 * c + 29 * i) % 256]

bin2hex(bin) == [k \in 1..(2 * Len(bin)) |-> IF k % 2 = 1 THEN hexval[((bin[(k + 1) \div 2] \div 16) % 16) + 1] ELSE hexval[(bin[k \div 2] % 16) + 1]]

\* fhash on a readable file: the hex digest of the content.
fhash(c) == bin2hex(RawHash(c))

(* ---------------------------- utilities.c ------------------------------ *)

\* C integer division truncates toward zero.
TruncDiv(a, b) == IF a >= 0 THEN a \div b ELSE -((-a) \div b)

\* a - b on two longs.  A difference no long holds is undefined behaviour:
\* the build either wraps it (wraps) or goes on as if it had not overflowed.
SubLong(a, b, wraps) ==
    IF wraps /\ a - b > LONG_MAX THEN ((a - b) - LONG_MAX - 1) - LONG_MAX - 1
    ELSE IF wraps /\ a - b < -LONG_MAX - 1 THEN ((a - b) + LONG_MAX + 1) + LONG_MAX + 1
    ELSE a - b

\* ts_compare without the division: nanoseconds compared as they are.
ts_compare_exact(ts1, ts2, fuzzy, wraps) ==
    LET sec == SubLong(ts1.sec, ts2.sec, wraps)
        nsec == ts1.nsec - ts2.nsec
    IN  IF sec > 0 THEN 2
        ELSE IF sec < 0 THEN -2
        ELSE IF nsec > 0 THEN 1
        ELSE IF nsec < 0 THEN -1
        ELSE 0

\* The body in utilities.c takes no fuzzy flag: the division by 1000 is
\* done for every pair of timestamps.
ts_compare(ts1, ts2, fuzzy, wraps) ==
    LET sec == SubLong(ts1.sec, ts2.sec, wraps)
        nsec == TruncDiv(ts1.nsec - ts2.nsec, 1000)
    IN  IF sec > 0 THEN 2
        ELSE IF sec < 0 THEN -2
        ELSE IF nsec > 0 THEN 1
        ELSE IF nsec < 0 THEN -1
        ELSE 0

(* -------------------------------- xa.c --------------------------------- *)

\* (xa_t){ .alg = alg }: every other member zero, the hash the empty string.
xa_zero(alg) == [valid |-> FALSE, fuzzy |-> FALSE, mtime |-> [sec |-> 0, nsec |-> 0], alg |-> alg, hash |-> <<>>]

\* xa_clear leaving the timestamp and the fuzzy mark as they are.
xa_clear_hash_only(xa) == [xa EXCEPT !.valid = FALSE, !.hash = [k \in 1..(2 * get_alg_size) |-> "0"]]

xa_clear(xa) == [valid |-> FALSE, fuzzy |-> FALSE, mtime |-> [sec |-> 0, nsec |-> 0], alg |-> xa.alg, hash |-> [k \in 1..(2 * get_alg_size) |-> "0"]]

\* fgetxattr with a buffer of size - 1 bytes; errno is the failure the file
\* system injects ("none": the call goes through to the attribute).
xa_read_xattr(xattrs, attr_name, size, errno) ==
    IF errno = "ENOTSUP" THEN [result |-> "E_UNSUPPORTED", value |-> <<>>]
    ELSE IF errno = "EIO" THEN [result |-> "E_IO_ERROR", value |-> <<>>]
    ELSE IF attr_name \notin DOMAIN xattrs THEN [result |-> "E_NOT_FOUND", value |-> <<>>]
    ELSE IF Len(xattrs[attr_name]) > size - 1 THEN [result |-> "E_INVALID", value |-> <<>>]
    ELSE [result |-> "E_OK", value |-> xattrs[attr_name]]

\* fsetxattr: creates or replaces the attribute.
xa_write_xattr(xattrs, attr_name, value, errno) ==
    IF errno = "ENOTSUP" THEN [result |-> "E_UNSUPPORTED", xattrs |-> xattrs]
    ELSE IF errno = "EIO" THEN [result |-> "E_IO_ERROR", xattrs |-> xattrs]
    ELSE [result |-> "E_OK", xattrs |-> [n \in (DOMAIN xattrs) \cup {attr_name} |-> IF n = attr_name THEN value ELSE xattrs[n]]]

RECURSIVE DigitRun(_, _, _)
\* Number of decimal digits of s from position j on, at most w of them.
DigitRun(s, j, w) == IF w <= 0 \/ j > Len(s) \/ ~isdigit(s[j]) THEN 0 ELSE 1 + DigitRun(s, j + 1, w - 1)

\* One more digit d after the value v, as %ld converts: a value above
\* LONG_MAX stays LONG_MAX + 1 (the C library clamps as strtol does).
Accumulate(v, d) == IF v > (LONG_MAX - d) \div 10 THEN LONG_MAX + 1 ELSE 10 * v + d

RECURSIVE DecValue(_, _, _)
\* Value of the digits s[a..b], LONG_MAX + 1 when no long holds it.
DecValue(s, a, b) == IF b < a THEN 0 ELSE Accumulate(DecValue(s, a, b - 1), DigitVal(s[b]))

\* One %ld (w = 0) or %<w>ld conversion of sscanf at position i: an optional
\* sign, then digits; the sign counts in the width.  A value no long holds
\* is converted to LONG_MAX or LONG_MIN.  The texts of the model hold no
\* white space.
ScanLong(s, i, w) ==
    LET value(j, n, v) ==
            IF n = 0 THEN [ok |-> FALSE, val |-> 0, next |-> i]
            ELSE IF j > i /\ s[i] = "-" THEN [ok |-> TRUE, val |-> -v, next |-> j + n]
            ELSE [ok |-> TRUE, val |-> IF v > LONG_MAX THEN LONG_MAX ELSE v, next |-> j + n]
        digits(j, n) == value(j, n, DecValue(s, j, j + n - 1))
        signed(j, width) == digits(j, DigitRun(s, j, width - (j - i)))
    IN  signed(IF i <= Len(s) /\ s[i] \in {"-", "+"} THEN i + 1 ELSE i, IF w = 0 THEN Len(s) + 1 ELSE w)

RECURSIVE Pow10(_)
Pow10(k) == IF k <= 0 THEN 1 ELSE 10 * Pow10(k - 1)

\* sscanf(buf, "%ld.%n%10ld%n", &tv_sec, &start, &tv_nsec, &end) and the
\* code after it.  tv_nsec is 0 on entry (xa_clear).  When the second
\* conversion does not happen, end (and, without a '.', start) is never
\* assigned: end - start is then the indeterminate value u.  err is what
\* sscanf returned (0 also when the attribute could not be read).
xa_read_timestamp(xattrs, errno, u) ==
    LET none == [sec |-> 0, nsec |-> 0]
        checked(sec, nsec, end, truncated, err) == [result |-> IF nsec >= NSEC_PER_SEC \/ end >= 10 THEN "E_INVALID" ELSE "E_OK", mtime |-> [sec |-> sec, nsec |-> nsec], truncated |-> truncated, err |-> err]
        scaled(sec, nsec, end, err) ==
            IF end < 9 THEN checked(sec, IF nsec = 0 THEN 0 ELSE nsec * Pow10(9 - end), 9, TRUE, err)
            ELSE checked(sec, nsec, end, FALSE, err)
        fraction(sec, start, second) ==
            IF second.ok THEN scaled(sec, second.val, second.next - start, 2)
            ELSE scaled(sec, 0, u, 1)
        seconds(buf, first) ==
            IF ~first.ok THEN [result |-> "E_INVALID", mtime |-> none, truncated |-> FALSE, err |-> 0]
            ELSE IF first.next <= Len(buf) /\ buf[first.next] = "." THEN fraction(first.val, first.next + 1, ScanLong(buf, first.next + 1, 10))
            ELSE scaled(first.val, 0, u, 1)
        parsed(r) ==
            IF r.result # "E_OK" THEN [result |-> r.result, mtime |-> none, truncated |-> FALSE, err |-> 0]
            ELSE seconds(r.value, ScanLong(r.value, 1, 0))
    IN  parsed(xa_read_xattr(xattrs, TIMESTAMP_XATTR, TS_BUF_SIZE, errno))

RECURSIVE DecText(_)
\* The decimal digits of a value >= 0.
DecText(n) == IF n < 10 THEN <<Digits[n + 1]>> ELSE Append(DecText(n \div 10), Digits[(n % 10) + 1])

\* %lu of a long: a negative one is printed as the unsigned long with the
\* same bits.
UnsignedText(n) == IF n >= 0 THEN DecText(n) ELSE DecText((n + LONG_MAX + 1) + LONG_MAX + 1)

\* Zeros on the left of t up to nine characters.
ZeroPad(t) == [k \in 1..(9 - Len(t)) |-> "0"] \o t

\* %09lu: at least nine digits, padded with zeros on the left.
Pad9(n) == ZeroPad(UnsignedText(n))

\* snprintf(buf, sizeof(buf), "%lu.%09lu", tv_sec, tv_nsec).
FormatTimestamp(mtime) == UnsignedText(mtime.sec) \o <<".">> \o Pad9(mtime.nsec)

xa_write_timestamp(xattrs, mtime, errno) == xa_write_xattr(xattrs, TIMESTAMP_XATTR, FormatTimestamp(mtime), errno)

xa_read_checksum(xattrs, errno) ==
    LET checked(r) ==
            IF r.result # "E_OK" THEN [result |-> r.result, checksum |-> r.value]
            ELSE IF Len(r.value) # get_alg_size * 2 THEN [result |-> "E_INVALID", checksum |-> r.value]
            ELSE IF \E k \in 1..Len(r.value) : ~isxdigit(r.value[k]) THEN [result |-> "E_INVALID", checksum |-> r.value]
            ELSE [result |-> "E_OK", checksum |-> [k \in 1..Len(r.value) |-> tolower(r.value[k])]]
    IN  checked(xa_read_xattr(xattrs, CHECKSUM_XATTR, MAX_HASH_STRING_LENGTH + 1, errno))

xa_write_checksum(xattrs, checksum, errno) == xa_write_xattr(xattrs, CHECKSUM_XATTR, checksum, errno)

\* xa_compute: readable says whether every read() of fhash succeeds.  The
\* hash of xa is left as it was when fhash fails; the assertion on its
\* length then decides (ok = FALSE: abort()).
xa_compute(content, xa, readable) ==
    IF readable THEN [err |-> 0, xa |-> [xa EXCEPT !.hash = fhash(content), !.valid = TRUE], ok |-> Len(fhash(content)) = get_alg_size * 2]
    ELSE [err |-> -1, xa |-> xa, ok |-> Len(xa.hash) = get_alg_size * 2]

\* xa_read_error with a failed read reported as corrupted attributes.
xa_read_error_as_corrupt(result) ==
    CASE result = "E_NOT_FOUND" -> 1
      [] result = "E_UNSUPPORTED" -> 2
      [] result = "E_IO_ERROR" -> 2
      [] result = "E_INVALID" -> 2

\* The return value of xa_read for a failed attribute read.
xa_read_error(result) ==
    CASE result = "E_NOT_FOUND" -> 1
      [] result = "E_UNSUPPORTED" -> -1
      [] result = "E_IO_ERROR" -> -1
      [] result = "E_INVALID" -> 2

\* xa_read: reads is the number of attributes it asked the file for.  The
\* record is cleared on entry, xa_read_timestamp and xa_read_checksum store
\* into it what they read, and it is cleared again when one of them fails.
xa_read(xattrs, xa, e_ts, e_sum, u) ==
    LET timed(ts) == [xa_clear(xa) EXCEPT !.mtime = ts.mtime, !.fuzzy = ts.truncated]
        checksum(ts, sum) ==
            IF sum.result # "E_OK" THEN [ret |-> xa_read_error(sum.result), xa |-> xa_clear([timed(ts) EXCEPT !.hash = sum.checksum]), reads |-> 2]
            ELSE [ret |-> 0, xa |-> [timed(ts) EXCEPT !.valid = TRUE, !.hash = sum.checksum], reads |-> 2]
        timestamp(ts) ==
            IF ts.result # "E_OK" THEN [ret |-> xa_read_error(ts.result), xa |-> xa_clear(timed(ts)), reads |-> 1]
            ELSE checksum(ts, xa_read_checksum(xattrs, e_sum))
    IN  timestamp(xa_read_timestamp(xattrs, e_ts, u))

\* xa_write with the timestamp written first and the digest after it.
xa_write_timestamp_first(xattrs, xa, e_sum, e_ts) ==
    LET checksum(ts, sum) ==
            IF sum.result # "E_OK" THEN [ret |-> -1, xattrs |-> ts.xattrs, wrote |-> 1]
            ELSE [ret |-> 0, xattrs |-> sum.xattrs, wrote |-> 2]
        timestamp(ts) ==
            IF ts.result # "E_OK" THEN [ret |-> -1, xattrs |-> xattrs, wrote |-> 0]
            ELSE checksum(ts, xa_write_checksum(ts.xattrs, xa.hash, e_sum))
    IN  IF ~xa.valid THEN [ret |-> -22, xattrs |-> xattrs, wrote |-> 0]
        ELSE timestamp(xa_write_timestamp(xattrs, xa.mtime, e_ts))

\* xa_write: wrote is the number of attributes written (0, 1 or 2).
xa_write(xattrs, xa, e_sum, e_ts) ==
    LET timestamp(sum, ts) ==
            IF ts.result # "E_OK" THEN [ret |-> -1, xattrs |-> sum.xattrs, wrote |-> 1]
            ELSE [ret |-> 0, xattrs |-> ts.xattrs, wrote |-> 2]
        checksum(sum) ==
            IF sum.result # "E_OK" THEN [ret |-> -1, xattrs |-> xattrs, wrote |-> 0]
            ELSE timestamp(sum, xa_write_timestamp(sum.xattrs, xa.mtime, e_ts))
    IN  IF ~xa.valid THEN [ret |-> -22, xattrs |-> xattrs, wrote |-> 0]
        ELSE checksum(xa_write_checksum(xattrs, xa.hash, e_sum))

(* ------------------------------- file.c -------------------------------- *)

\* The system call a check fails at, if any, and the errno it fails with.
\* "EIO" stands for every errno the code does not tell apart.  "S_ISREG":
\* no call fails, the path names no regular file (a directory without
\* --recursive, a device, a socket).
NoFault == [at |-> "none", errno |-> "none"]

Faults == {NoFault, [at |-> "open", errno |-> "EIO"], [at |-> "fstat", errno |-> "EIO"], [at |-> "S_ISREG", errno |-> "none"], [at |-> "fstat2", errno |-> "EIO"], [at |-> "getxattr_ts", errno |-> "ENOTSUP"], [at |-> "getxattr_ts", errno |-> "EIO"], [at |-> "getxattr_sum", errno |-> "EIO"], [at |-> "read", errno |-> "EIO"], [at |-> "setxattr_sum", errno |-> "EIO"], [at |-> "setxattr_ts", errno |-> "EIO"]}

ErrnoAt(fault, at) == IF fault.at = at THEN fault.errno ELSE "none"

\* Values an uninitialized int may hold, one for each way the code tests
\* it: below 9, equal to 9, 10 or more.
Indeterminate == {0, 9, 10}

\* The outcomes of the undefined behaviour one check can meet: end, the value
\* of end - start when sscanf assigned no end, and wraps, whether a long
\* subtraction that overflows wraps.  Only the choices the check reads are
\* told apart: end when the stored timestamp has no fraction, wraps when the
\* stored seconds minus the live seconds is no long.
Undefined(xattrs, mtime) ==
    LET overflows(d) == d > LONG_MAX \/ d < -LONG_MAX - 1
        choices(ts) == [end : IF ts.err = 1 THEN Indeterminate ELSE {0}, wraps : IF overflows(ts.mtime.sec - mtime.sec) THEN BOOLEAN ELSE {FALSE}]
    IN  choices(xa_read_timestamp(xattrs, "none", 0))

\* hash_state with the sign of the comparison read the other way round.
hash_state_reversed(stored, actual, comparison) ==
    IF stored.hash = actual.hash THEN (IF comparison = 0 THEN "OK" ELSE "SAME")
    ELSE IF comparison > 0 THEN "OUTDATED"
    ELSE IF comparison < 0 THEN "BACKDATED"
    ELSE "CORRUPT"

\* Lines 220-233: the state once both digests are known.
hash_state(stored, actual, comparison) ==
    IF stored.hash = actual.hash THEN (IF comparison = 0 THEN "OK" ELSE "SAME")
    ELSE IF comparison < 0 THEN "OUTDATED"
    ELSE IF comparison > 0 THEN "BACKDATED"
    ELSE "CORRUPT"

\* quick_check with --check ignored.
quick_check_always(comparison, check) == comparison = 0

\* Lines 214-216: the quick check.  Equal timestamps skip the hashing unless
\* --check is given.
quick_check(comparison, check) == comparison = 0 /\ ~check

\* What get_file_state leaves behind: its return value (state), the two
\* records, and what it did on the way.  hashed: xa_compute was called;
\* abort: the assertion of xa_compute failed; xa_ret: what xa_read returned;
\* hit: the injected fault was met.
FileState(state, stored, actual, hashed, abort, xa_ret, comparison, hit) == [state |-> state, stored |-> stored, actual |-> actual, hashed |-> hashed, abort |-> abort, xa_ret |-> xa_ret, comparison |-> comparison, hit |-> hit]

get_file_state(content, mtime, xattrs, stored, actual, check, fault, ub) ==
    LET e_ts == ErrnoAt(fault, "getxattr_ts")
        e_sum == ErrnoAt(fault, "getxattr_sum")
        computed(state, rd, cp, comparison, rdhit) == FileState(state, rd.xa, cp.xa, TRUE, ~cp.ok, rd.ret, comparison, rdhit \/ fault.at = "read")
        hashed(rd, cp, comparison, rdhit) == computed(hash_state(rd.xa, cp.xa, comparison), rd, cp, comparison, rdhit)
        compared(rd, a1, comparison, rdhit) ==
            IF quick_check(comparison, check) THEN FileState("OK", rd.xa, a1, FALSE, FALSE, rd.ret, comparison, rdhit)
            ELSE hashed(rd, xa_compute(content, a1, fault.at # "read"), comparison, rdhit)
        read(rd, a1, rdhit) ==
            IF rd.ret < 0 THEN FileState("FAULT", rd.xa, a1, FALSE, FALSE, rd.ret, 0, rdhit)
            ELSE IF rd.ret = 1 THEN computed("NEW", rd, xa_compute(content, a1, fault.at # "read"), 0, rdhit)
            ELSE IF rd.ret >= 2 THEN computed("INVALID", rd, xa_compute(content, a1, fault.at # "read"), 0, rdhit)
            ELSE compared(rd, a1, ts_compare(rd.xa.mtime, a1.mtime, rd.xa.fuzzy, ub.wraps), rdhit)
        stated(rd, a1) == read(rd, a1, e_ts # "none" \/ (e_sum # "none" /\ rd.reads = 2))
    IN  IF actual.mtime.sec = 0 /\ fault.at = "fstat2" THEN FileState("FAULT", stored, actual, FALSE, FALSE, 0, 0, TRUE)
        ELSE stated(xa_read(xattrs, stored, e_ts, e_sum, ub.end), IF actual.mtime.sec = 0 THEN [actual EXCEPT !.mtime = mtime] ELSE actual)

\* needs_force without the case of FILE_CORRUPT.
needs_force_but_corrupt(state) == state \in {"BACKDATED", "FAULT", "INVALID"}

\* needs_force with a case of FILE_SAME added.
needs_force_and_same(state) == state \in {"BACKDATED", "CORRUPT", "FAULT", "INVALID", "SAME"}

\* The states check_file does not update without --force (lines 289-306).
needs_force(state) == state \in {"BACKDATED", "CORRUPT", "FAULT", "INVALID"}

\* update_file with --force tested before --dry-run and overriding it.
update_file_forced(state, actual, xattrs, args, fault) ==
    LET written(w) ==
            IF w.ret # 0 THEN [ret |-> 2, xattrs |-> w.xattrs, write |-> IF w.ret = -22 THEN "refused" ELSE IF w.wrote = 1 THEN "partial" ELSE "failed"]
            ELSE [ret |-> 0, xattrs |-> w.xattrs, write |-> "ok"]
    IN  IF state = "OK" THEN [ret |-> 0, xattrs |-> xattrs, write |-> "none"]
        ELSE IF needs_force(state) /\ ~args.force THEN [ret |-> 1, xattrs |-> xattrs, write |-> "none"]
        ELSE IF args.dry_run /\ ~args.force THEN [ret |-> 0, xattrs |-> xattrs, write |-> "none"]
        ELSE written(xa_write(xattrs, actual, ErrnoAt(fault, "setxattr_sum"), ErrnoAt(fault, "setxattr_ts")))

\* update_file with a failed write returning what a refused update returns.
update_file_unmarked(state, actual, xattrs, args, fault) ==
    LET written(w) ==
            IF w.ret # 0 THEN [ret |-> 1, xattrs |-> w.xattrs, write |-> IF w.ret = -22 THEN "refused" ELSE IF w.wrote = 1 THEN "partial" ELSE "failed"]
            ELSE [ret |-> 0, xattrs |-> w.xattrs, write |-> "ok"]
    IN  IF state = "OK" THEN [ret |-> 0, xattrs |-> xattrs, write |-> "none"]
        ELSE IF needs_force(state) /\ ~args.force THEN [ret |-> 1, xattrs |-> xattrs, write |-> "none"]
        ELSE IF args.dry_run THEN [ret |-> IF needs_force(state) THEN 1 ELSE 0, xattrs |-> xattrs, write |-> "none"]
        ELSE written(xa_write(xattrs, actual, ErrnoAt(fault, "setxattr_sum"), ErrnoAt(fault, "setxattr_ts")))

\* Lines 286-317 of check_file: what is returned and written once the state
\* is known.  write: "none" (xa_write was not called) or what xa_write did:
\* "refused" (record not valid), "failed" (nothing written), "partial" (the
\* digest written, the timestamp not), "ok".
update_file(state, actual, xattrs, args, fault) ==
    LET written(w) ==
            IF w.ret # 0 THEN [ret |-> 2, xattrs |-> w.xattrs, write |-> IF w.ret = -22 THEN "refused" ELSE IF w.wrote = 1 THEN "partial" ELSE "failed"]
            ELSE [ret |-> 0, xattrs |-> w.xattrs, write |-> "ok"]
    IN  IF state = "OK" THEN [ret |-> 0, xattrs |-> xattrs, write |-> "none"]
        ELSE IF needs_force(state) /\ ~args.force THEN [ret |-> 1, xattrs |-> xattrs, write |-> "none"]
        ELSE IF args.dry_run THEN [ret |-> IF needs_force(state) THEN 1 ELSE 0, xattrs |-> xattrs, write |-> "none"]
        ELSE written(xa_write(xattrs, actual, ErrnoAt(fault, "setxattr_sum"), ErrnoAt(fault, "setxattr_ts")))

\* utilities.h: the verbosity tests.
check_crit(verbose) == verbose >= -1

check_err(verbose) == verbose >= 0

\* print_state: whether the line "<filename>: <STATE>" is printed.
print_state(state, verbose) ==
    IF state \in {"BACKDATED", "CORRUPT", "FAULT", "INVALID"} THEN check_crit(verbose)
    ELSE check_err(verbose)

\* Lines 277-284 of check_file: what is printed about the file.  "state":
\* the line with its state; "sum": the line of print_sum, digest and file
\* name in the format of sha*sum; "none": nothing (a FAULT returns before
\* anything is printed, as does a path that never reached check_file).
report(state, args) ==
    IF state \in {"none", "FAULT"} THEN "none"
    ELSE IF args.print THEN "sum"
    ELSE IF print_state(state, args.verbose) THEN "state"
    ELSE "none"

\* What one check leaves behind: the outcome of get_file_state, the return
\* value of check_file (ret), the attributes of the file afterwards, and what
\* was written.  state "none": no state was reached.
Checked(g, state, ret, xattrs, write, hit) == [state |-> state, stored |-> g.stored, actual |-> g.actual, hashed |-> g.hashed, abort |-> g.abort, xa_ret |-> g.xa_ret, comparison |-> g.comparison, ret |-> ret, xattrs |-> xattrs, write |-> write, hit |-> hit]

\* check_file(fd, filename, st): st_mtim is the mtime fstat gave.
check_file(content, st_mtim, xattrs, args, fault, ub) ==
    LET updated(g, up) == Checked(g, g.state, up.ret, up.xattrs, up.write, g.hit \/ up.write \in {"failed", "partial"})
        stated(g) ==
            IF g.abort THEN Checked(g, "none", 0, xattrs, "none", g.hit)
            ELSE IF g.state = "FAULT" THEN Checked(g, g.state, -1, xattrs, "none", g.hit)
            ELSE updated(g, update_file(g.state, g.actual, xattrs, args, fault))
    IN  stated(get_file_state(content, st_mtim, xattrs, xa_zero(get_alg_name), [xa_zero(get_alg_name) EXCEPT !.mtime = st_mtim], args.check, fault, ub))

\* The outcome of a path that never reached check_file.
Unchecked(ret, xattrs) == [state |-> "none", stored |-> xa_zero(get_alg_name), actual |-> xa_zero(get_alg_name), hashed |-> FALSE, abort |-> FALSE, xa_ret |-> 0, comparison |-> 0, ret |-> ret, xattrs |-> xattrs, write |-> "none", hit |-> TRUE]

\* process_path2 on a path that names the file: open, fstat, check_file,
\* close.  Directories are not descended into.
process_path2(content, mtime, xattrs, args, fault, ub) ==
    IF fault.at = "open" THEN Unchecked(1, xattrs)
    ELSE IF fault.at = "fstat" THEN Unchecked(-1, xattrs)
    ELSE IF fault.at = "S_ISREG" THEN Unchecked(1, xattrs)
    ELSE check_file(content, mtime, xattrs, args, fault, ub)

process_path(content, mtime, xattrs, args, fault, ub) == process_path2(content, mtime, xattrs, args, fault, ub)

(* --------------------------- the state machine ------------------------- *)

VARIABLES
    args,         \* the options of the running process (struct args_s), all
                  \* unset once it has ended
    argc,         \* main: paths still to process
    ret,          \* main: the result kept so far
    pc,           \* "main": in the loop of main; "return": at a return of
                  \* main; "abort": in abort(); "exited": the process ended
    exit_status,  \* the exit status, once pc = "exited"
    content,      \* the file: which content it holds
    mtime,        \* the file: st_mtim
    xattrs,       \* the file: its extended attributes, name -> text
    chk,          \* the check the last step made, if it was a check
    corrupt_seen, \* this process classified a file CORRUPT
    worst,        \* the largest value err of main has had in this process
    stack,        \* the check_dir calls in progress, outermost first
    parents,      \* struct parent_dirs of the process_path call in progress
    fds           \* the open file descriptors of the process

vars == <<args, argc, ret, pc, exit_status, content, mtime, xattrs, chk, corrupt_seen, worst, stack, parents, fds>>

\* struct parent_dirs parents = { NULL, 0, 0 }.
NoParents == [data |-> <<>>, count |-> 0, allocated |-> 0]

\* struct args_s with any of --check, --dry-run and --force, and none of the
\* options about what is printed.
Args == [check : BOOLEAN, dry_run : BOOLEAN, force : BOOLEAN, print : {FALSE}, verbose : {0}]

\* struct args_s with any of --check and --force, and any of the options
\* about what is printed: --print, up to MaxQuiet --quiet, one --verbose.
ReportArgs == [check : BOOLEAN, dry_run : {FALSE}, force : BOOLEAN, print : BOOLEAN, verbose : (-MaxQuiet)..1]

\* args when no process runs.
NoArgs == [check |-> FALSE, dry_run |-> FALSE, force |-> FALSE, print |-> FALSE, verbose |-> 0]

\* Modification times of the file: one before 1970, the epoch, whole seconds
\* after it, one 2 us into the last second and one 999 ns after that.
Times == {[sec |-> s, nsec |-> 0] : s \in -1..MaxSec} \cup {[sec |-> MaxSec, nsec |-> 2000], [sec |-> MaxSec, nsec |-> 2999]}

Contents == 1..MaxContent

NoXattrs == [n \in {} |-> <<>>]

\* Attribute texts other programs leave behind.  Timestamps: microsecond
\* precision, whole seconds, not a number.  Digests: upper case, one
\* character short, not hexadecimal.
ForeignTimestamps == {DecText(MaxSec) \o <<".", "0", "0", "0", "0", "0", "2">>, <<"1">>, <<"x">>}

ForeignChecksums == {[k \in 1..(2 * HashBytes) |-> toupper(fhash(1)[k])], SubSeq(fhash(1), 1, 2 * HashBytes - 1), [k \in 1..(2 * HashBytes) |-> IF k = 1 THEN "g" ELSE fhash(1)[k]]}

\* chk when the last step was no check.  Of a check it keeps: the fault
\* injected, the attributes before it, what check_file and get_file_state
\* left behind, what it printed, and wrote_as and since: the state of the check that wrote
\* the record the file carries and the number of checks made after it (the
\* two checks after a write are followed), raced: another program wrote
\* the file during that check, and torn: an earlier check of the file as it
\* is wrote the digest and failed to write the timestamp.
NoCheck == [done |-> FALSE, fault |-> NoFault, before |-> NoXattrs, state |-> "none", stored |-> xa_zero(get_alg_name), actual |-> xa_zero(get_alg_name), hashed |-> FALSE, abort |-> FALSE, xa_ret |-> 0, comparison |-> 0, ret |-> 0, write |-> "none", printed |-> "none", wrote_as |-> "none", since |-> 0, raced |-> FALSE, torn |-> FALSE]

Init ==
    /\ args \in Args
    /\ argc \in 1..MaxArgs
    /\ ret = 0
    /\ pc = "main"
    /\ exit_status = 0
    /\ content \in Contents
    /\ mtime \in Times
    /\ xattrs = NoXattrs
    /\ chk = NoCheck
    /\ corrupt_seen = FALSE
    /\ worst = 0
    /\ stack = <<>>
    /\ parents = NoParents
    /\ fds = {}

\* One turn of the loop of main (b2tag.c lines 210-226): process_path on the
\* next path and the result folded into ret.  A negative result takes main
\* to its return, a failed assertion ends the process with abort().
main ==
    /\ pc = "main"
    /\ argc >= 1
    /\ \E fault \in Faults, ub \in Undefined(xattrs, mtime) :
        \E r \in {process_path(content, mtime, xattrs, args, fault, ub)} :
            LET followed == chk.wrote_as # "none" /\ chk.since < 2
            IN  /\ r.hit \/ fault = NoFault
                /\ xattrs' = r.xattrs
                /\ chk' = [done |-> TRUE, fault |-> fault, before |-> xattrs, state |-> r.state, stored |-> r.stored, actual |-> r.actual, hashed |-> r.hashed, abort |-> r.abort, xa_ret |-> r.xa_ret, comparison |-> r.comparison, ret |-> r.ret, write |-> r.write, printed |-> IF r.abort THEN "none" ELSE report(r.state, args), wrote_as |-> IF followed THEN chk.wrote_as ELSE IF r.write = "ok" THEN r.state ELSE "none", since |-> IF followed THEN chk.since + 1 ELSE 0, raced |-> followed /\ chk.raced, torn |-> chk.torn \/ chk.write = "partial"]
                /\ corrupt_seen' = (corrupt_seen \/ r.state = "CORRUPT")
                /\ worst' = IF ~r.abort /\ r.ret > worst THEN r.ret ELSE worst
                /\ pc' = IF r.abort THEN "abort" ELSE IF r.ret < 0 THEN "return" ELSE "main"
                /\ ret' = IF ~r.abort /\ ret = 0 /\ r.ret > 0 THEN r.ret ELSE ret
                /\ argc' = IF r.abort \/ r.ret < 0 THEN argc ELSE argc - 1
    /\ UNCHANGED <<args, exit_status, content, mtime, stack, parents, fds>>

\* The process ends: main returns ret, from inside the loop (line 222) or
\* after it (line 228), or abort() has raised SIGABRT.
exit ==
    /\ pc = "return" \/ pc = "abort" \/ (pc = "main" /\ argc < 1)
    /\ pc' = "exited"
    /\ exit_status' = IF pc = "abort" THEN ABORT_STATUS ELSE ret
    /\ args' = NoArgs
    /\ argc' = 0
    /\ ret' = 0
    /\ chk' = NoCheck
    /\ UNCHANGED <<content, mtime, xattrs, corrupt_seen, worst, stack, parents, fds>>

\* The program is started again, with any options and number of paths.
Invoke ==
    /\ pc = "exited"
    /\ args' \in Args
    /\ argc' \in 1..MaxArgs
    /\ ret' = 0
    /\ pc' = "main"
    /\ exit_status' = 0
    /\ chk' = NoCheck
    /\ corrupt_seen' = FALSE
    /\ worst' = 0
    /\ UNCHANGED <<content, mtime, xattrs, stack, parents, fds>>

\* What every step of the environment does to the bookkeeping.  Its steps are
\* taken before a path is processed or when no process runs: main reads
\* nothing of the file once the last path is done.
Outside ==
    /\ pc = "exited" \/ (pc = "main" /\ argc >= 1)
    /\ chk' = NoCheck
    /\ UNCHANGED <<args, argc, ret, pc, exit_status, corrupt_seen, worst, stack, parents, fds>>

\* Another program rewrites the file: new content, new mtime (later, or
\* earlier when an old copy is restored).
EnvModify ==
    /\ content' \in Contents \ {content}
    /\ mtime' \in Times \ {mtime}
    /\ UNCHANGED xattrs
    /\ Outside

\* The mtime alone changes (touch).
EnvTouch ==
    /\ mtime' \in Times \ {mtime}
    /\ UNCHANGED <<content, xattrs>>
    /\ Outside

\* The content changes and the mtime does not (bit rot, tampering).
EnvCorrupt ==
    /\ content' \in Contents \ {content}
    /\ UNCHANGED <<mtime, xattrs>>
    /\ Outside

\* Another program sets or removes one of the two attributes.
EnvSetXattr ==
    /\ \/ \E v \in ForeignTimestamps : xattrs' = xa_write_xattr(xattrs, TIMESTAMP_XATTR, v, "none").xattrs
       \/ \E v \in ForeignChecksums : xattrs' = xa_write_xattr(xattrs, CHECKSUM_XATTR, v, "none").xattrs
       \/ \E n \in DOMAIN xattrs : xattrs' = [m \in (DOMAIN xattrs) \ {n} |-> xattrs[m]]
    /\ xattrs' # xattrs
    /\ UNCHANGED <<content, mtime>>
    /\ Outside

Next == main \/ exit \/ Invoke \/ EnvModify \/ EnvTouch \/ EnvCorrupt \/ EnvSetXattr

Spec == Init /\ [][Next]_vars

\* ts1 is later than ts2.
Later(ts1, ts2) == ts1.sec > ts2.sec \/ (ts1.sec = ts2.sec /\ ts1.nsec > ts2.nsec)

\* One turn of the loop of main during which another program rewrites the
\* file: after the fstat of process_path2 (line 457) has captured the mtime,
\* the content changes and the mtime advances.  fhash reads the content from
\* before the change or from after it (read); everything else of the turn
\* is as in main.
main_raced ==
    /\ pc = "main"
    /\ argc >= 1
    /\ \E c2 \in Contents \ {content}, m2 \in {m \in Times : Later(m, mtime)}, read \in Contents, ub \in Undefined(xattrs, mtime) :
        \E r \in {process_path(read, mtime, xattrs, args, NoFault, ub)} :
            /\ read \in {content, c2}
            /\ r.hashed
            /\ content' = c2
            /\ mtime' = m2
            /\ xattrs' = r.xattrs
            /\ chk' = [done |-> TRUE, fault |-> NoFault, before |-> xattrs, state |-> r.state, stored |-> r.stored, actual |-> r.actual, hashed |-> r.hashed, abort |-> r.abort, xa_ret |-> r.xa_ret, comparison |-> r.comparison, ret |-> r.ret, write |-> r.write, printed |-> IF r.abort THEN "none" ELSE report(r.state, args), wrote_as |-> IF r.write = "ok" THEN r.state ELSE "none", since |-> 0, raced |-> TRUE, torn |-> FALSE]
            /\ corrupt_seen' = (corrupt_seen \/ r.state = "CORRUPT")
            /\ worst' = IF ~r.abort /\ r.ret > worst THEN r.ret ELSE worst
            /\ pc' = IF r.abort THEN "abort" ELSE IF r.ret < 0 THEN "return" ELSE "main"
            /\ ret' = IF ~r.abort /\ ret = 0 /\ r.ret > 0 THEN r.ret ELSE ret
            /\ argc' = IF r.abort \/ r.ret < 0 THEN argc ELSE argc - 1
    /\ UNCHANGED <<args, exit_status, stack, parents, fds>>

NextRace == main \/ main_raced \/ exit \/ Invoke \/ EnvModify

\* The program on a file that another program rewrites, between the checks
\* and during them.
SpecRace == Init /\ [][NextRace]_vars

\* The program run with the options about what is printed, on a file that
\* only b2tag sets attributes of.
InitReport ==
    /\ args \in ReportArgs
    /\ argc = 1
    /\ ret = 0
    /\ pc = "main"
    /\ exit_status = 0
    /\ content \in Contents
    /\ mtime \in Times
    /\ xattrs = NoXattrs
    /\ chk = NoCheck
    /\ corrupt_seen = FALSE
    /\ worst = 0
    /\ stack = <<>>
    /\ parents = NoParents
    /\ fds = {}

InvokeReport ==
    /\ pc = "exited"
    /\ args' \in ReportArgs
    /\ argc' = 1
    /\ ret' = 0
    /\ pc' = "main"
    /\ exit_status' = 0
    /\ chk' = NoCheck
    /\ corrupt_seen' = FALSE
    /\ worst' = 0
    /\ UNCHANGED <<content, mtime, xattrs, stack, parents, fds>>

NextReport == main \/ exit \/ InvokeReport \/ EnvModify \/ EnvCorrupt

SpecReport == InitReport /\ [][NextReport]_vars

(* ------------------------- xa_read on its own -------------------------- *)

\* k digits after the '.': lead, then 1, 2, 3, ...
FractionText(lead, k) == [j \in 1..k |-> IF j = 1 THEN lead ELSE Digits[((j - 1) % 10) + 1]]

\* Values of the timestamp attribute: whole seconds; seconds, '.' and up to
\* MaxFraction digits; a signed fraction; not a number; empty.
ReadTimestamps == {DecText(s) : s \in 0..MaxSec} \cup {DecText(s) \o <<".">> \o FractionText(lead, k) : s \in {MaxSec}, lead \in {"0", "1", "9"}, k \in 0..MaxFraction} \cup {<<"1", ".", "-", "5">>, <<"x">>, <<>>}

\* Values of the digest attribute: digests b2tag wrote and the foreign ones.
ReadChecksums == {fhash(c) : c \in Contents} \cup ForeignChecksums

\* Records xa_read is handed: a fresh one and one that holds an older read.
GivenRecords == {xa_zero(get_alg_name), [valid |-> TRUE, fuzzy |-> TRUE, mtime |-> [sec |-> MaxSec, nsec |-> 5000], alg |-> get_alg_name, hash |-> fhash(1)]}

\* The fgetxattr calls that can fail in xa_read.
ReadFaults == {f \in Faults : f.at \in {"none", "getxattr_ts", "getxattr_sum"}}

\* chk when the last step was no call of xa_read.  Of a call it keeps: the
\* fault injected, the attributes read, the record handed in, what
\* xa_read_timestamp answered, and what xa_read returned and left in the
\* record.
NoRead == [done |-> FALSE, fault |-> NoFault, before |-> NoXattrs, given |-> xa_zero(get_alg_name), ts |-> xa_read_timestamp(NoXattrs, "none", 0), xa_ret |-> 0, stored |-> xa_zero(get_alg_name)]

InitRead ==
    /\ args = NoArgs
    /\ argc = 0
    /\ ret = 0
    /\ pc = "xa_read"
    /\ exit_status = 0
    /\ content = 1
    /\ mtime = [sec |-> 0, nsec |-> 0]
    /\ xattrs = NoXattrs
    /\ chk = NoRead
    /\ corrupt_seen = FALSE
    /\ worst = 0
    /\ stack = <<>>
    /\ parents = NoParents
    /\ fds = {}

\* One call xa_read(fd, xa) on the attributes of the file.
read_record ==
    /\ pc = "xa_read"
    /\ \E f \in ReadFaults, xa \in GivenRecords, ub \in Undefined(xattrs, mtime) :
          \E r \in {xa_read(xattrs, xa, ErrnoAt(f, "getxattr_ts"), ErrnoAt(f, "getxattr_sum"), ub.end)} :
             chk' = [done |-> TRUE, fault |-> f, before |-> xattrs, given |-> xa, ts |-> xa_read_timestamp(xattrs, ErrnoAt(f, "getxattr_ts"), ub.end), xa_ret |-> r.ret, stored |-> r.xa]
    /\ UNCHANGED <<args, argc, ret, pc, exit_status, content, mtime, xattrs, corrupt_seen, worst, stack, parents, fds>>

\* Between calls another program sets or removes an attribute.
SetTimestamp ==
    /\ pc = "xa_read"
    /\ \E v \in ReadTimestamps : xattrs' = xa_write_xattr(xattrs, TIMESTAMP_XATTR, v, "none").xattrs
    /\ chk' = NoRead
    /\ UNCHANGED <<args, argc, ret, pc, exit_status, content, mtime, corrupt_seen, worst, stack, parents, fds>>

SetChecksum ==
    /\ pc = "xa_read"
    /\ \E v \in ReadChecksums : xattrs' = xa_write_xattr(xattrs, CHECKSUM_XATTR, v, "none").xattrs
    /\ chk' = NoRead
    /\ UNCHANGED <<args, argc, ret, pc, exit_status, content, mtime, corrupt_seen, worst, stack, parents, fds>>

RemoveXattr ==
    /\ pc = "xa_read"
    /\ \E n \in DOMAIN xattrs : xattrs' = [m \in (DOMAIN xattrs) \ {n} |-> xattrs[m]]
    /\ chk' = NoRead
    /\ UNCHANGED <<args, argc, ret, pc, exit_status, content, mtime, corrupt_seen, worst, stack, parents, fds>>

NextRead == read_record \/ SetTimestamp \/ SetChecksum \/ RemoveXattr

SpecRead == InitRead /\ [][NextRead]_vars

(* ------------------- directories: process_path, check_dir -------------- *)

\* st_dev and st_ino of the directories there are: the first two have the
\* same inode number on two devices.
DirId(i) == [device |-> IF i = 2 THEN 2 ELSE 1, inode |-> IF i <= 2 THEN 1 ELSE i - 1]

Dirs == {DirId(i) : i \in 1..MaxDirs}

NoDir == [device |-> 0, inode |-> 0]

\* What the system answers during one call of process_path2: whether open
\* and fstat succeed, st_mode, st_dev and st_ino, what check_file returns
\* (ABORT_STATUS: it does not return, the assertion of xa_compute fails and
\* the process ends with that status), whether realloc and
\* fdopendir succeed, and the number of entries readdir will return.
Answer(open, fstat, mode, st, check, realloc, fdopendir, entries) == [open |-> open, fstat |-> fstat, mode |-> mode, st |-> st, check |-> check, realloc |-> realloc, fdopendir |-> fdopendir, entries |-> entries]

Answers ==
    {Answer(FALSE, FALSE, "none", NoDir, 0, TRUE, TRUE, 0), Answer(TRUE, FALSE, "none", NoDir, 0, TRUE, TRUE, 0), Answer(TRUE, TRUE, "S_IFCHR", NoDir, 0, TRUE, TRUE, 0)}
    \cup {Answer(TRUE, TRUE, "S_IFREG", NoDir, c, TRUE, TRUE, 0) : c \in {-1, 0, 1, 2, ABORT_STATUS}}
    \cup {Answer(TRUE, TRUE, "S_IFDIR", d, 0, TRUE, TRUE, n) : d \in Dirs, n \in 0..MaxEntries}
    \cup {Answer(TRUE, TRUE, "S_IFDIR", d, 0, FALSE, TRUE, 0) : d \in Dirs}
    \cup {Answer(TRUE, TRUE, "S_IFDIR", d, 0, TRUE, FALSE, 0) : d \in Dirs}

\* The loop test of check_dir looking at the directory above only.
loop_detected_above(dirs, st) == dirs.count >= 1 /\ dirs.data[dirs.count].inode = st.inode /\ dirs.data[dirs.count].device = st.device

\* The loop test of check_dir (lines 352-361).
loop_detected(dirs, st) == \E i \in 1..dirs.count : dirs.data[i].inode = st.inode /\ dirs.data[i].device = st.device

\* The outcome of a call as process_path2 and check_dir leave it: opened and
\* closed, whether open gave a descriptor and whether it was closed again;
\* enter, whether check_dir reached its readdir loop; err, the value
\* returned when it did not; dirs, the parents structure afterwards.
Outcome(opened, closed, enter, err, dirs) == [opened |-> opened, closed |-> closed, enter |-> enter, err |-> err, dirs |-> dirs]

\* check_dir with the descriptor left open when a loop is detected.
check_dir_loop_unclosed(dirs, a) ==
    LET grown == IF dirs.count >= dirs.allocated THEN [dirs EXCEPT !.allocated = @ + ALLOC_STEP, !.data = @ \o [k \in 1..ALLOC_STEP |-> NoDir]] ELSE dirs
    IN  IF loop_detected(dirs, a.st) THEN Outcome(TRUE, FALSE, FALSE, 1, dirs)
        ELSE IF dirs.count >= dirs.allocated /\ ~a.realloc THEN Outcome(TRUE, TRUE, FALSE, -1, dirs)
        ELSE IF ~a.fdopendir THEN Outcome(TRUE, TRUE, FALSE, 1, grown)
        ELSE Outcome(TRUE, FALSE, TRUE, 0, [grown EXCEPT !.data[grown.count + 1] = a.st, !.count = @ + 1])

\* check_dir up to its readdir loop (lines 352-391): the loop test, more
\* room in parents->data when it is full (the room added holds no
\* directory yet), fdopendir, and the directory added to parents.
check_dir(dirs, a) ==
    LET grown == IF dirs.count >= dirs.allocated THEN [dirs EXCEPT !.allocated = @ + ALLOC_STEP, !.data = @ \o [k \in 1..ALLOC_STEP |-> NoDir]] ELSE dirs
    IN  IF loop_detected(dirs, a.st) THEN Outcome(TRUE, TRUE, FALSE, 1, dirs)
        ELSE IF dirs.count >= dirs.allocated /\ ~a.realloc THEN Outcome(TRUE, TRUE, FALSE, -1, dirs)
        ELSE IF ~a.fdopendir THEN Outcome(TRUE, TRUE, FALSE, 1, grown)
        ELSE Outcome(TRUE, FALSE, TRUE, 0, [grown EXCEPT !.data[grown.count + 1] = a.st, !.count = @ + 1])

\* process_path2 (lines 442-484) on a path that may be a directory; the
\* check of a regular file is the value check_file returns.
open_path(dirs, a, recursive) ==
    IF ~a.open THEN Outcome(FALSE, FALSE, FALSE, 1, dirs)
    ELSE IF ~a.fstat THEN Outcome(TRUE, TRUE, FALSE, -1, dirs)
    ELSE IF a.mode = "S_IFREG" THEN Outcome(TRUE, TRUE, FALSE, a.check, dirs)
    ELSE IF a.mode = "S_IFDIR" THEN (IF ~recursive THEN Outcome(TRUE, TRUE, FALSE, 1, dirs) ELSE check_dir(dirs, a))
    ELSE Outcome(TRUE, TRUE, FALSE, 1, dirs)

\* open: the lowest descriptor not in use (0, 1 and 2 are).
NewFd(open) == CHOOSE n \in 3..(3 + Cardinality(open)) : n \notin open /\ \A m \in 3..(n - 1) : m \in open

WalkArgs == [recursive : BOOLEAN]

\* chk when the last step was no call or return.  Of a call of
\* process_path2 and of a return of check_dir it keeps: which of the two,
\* the answers of the system, ancestor: the directory is one of those being
\* read, entered: check_dir reached its loop, err: the value returned, fd:
\* the descriptor, and the values of parents->count on entry and on return.
NoCall == [done |-> FALSE, call |-> "none", answer |-> Answer(FALSE, FALSE, "none", NoDir, 0, TRUE, TRUE, 0), ancestor |-> FALSE, entered |-> FALSE, err |-> 0, fd |-> -1, entry_count |-> 0, exit_count |-> 0]

InitWalk ==
    /\ args \in WalkArgs
    /\ argc = 0
    /\ ret = 0
    /\ pc = "process_path"
    /\ exit_status = 0
    /\ content = 1
    /\ mtime = [sec |-> 0, nsec |-> 0]
    /\ xattrs = NoXattrs
    /\ chk = NoCall
    /\ corrupt_seen = FALSE
    /\ worst = 0
    /\ stack = <<>>
    /\ parents = NoParents
    /\ fds = {}

\* err comes back to the caller on the call stack s: to the loop of
\* check_dir (lines 410-416), or out of process_path.
Returned(s, err) ==
    IF s = <<>> THEN [stack |-> s, ret |-> err, pc |-> "returned"]
    ELSE [stack |-> [s EXCEPT ![Len(s)] = [@ EXCEPT !.ret = IF err # 0 THEN err ELSE @, !.brk = err < 0]], ret |-> ret, pc |-> "check_dir"]

\* process_path2 is called: by process_path, or by check_dir on the next
\* entry readdir returned.
process_path2_call ==
    /\ pc = "process_path" \/ (pc = "check_dir" /\ stack[Len(stack)].left > 0 /\ ~stack[Len(stack)].brk)
    /\ \E a \in Answers :
          \E r \in {open_path(parents, a, args.recursive)}, fd \in {NewFd(fds)}, s \in {IF pc = "check_dir" THEN [stack EXCEPT ![Len(stack)].left = @ - 1] ELSE stack} :
             /\ parents' = r.dirs
             /\ fds' = IF r.opened /\ ~r.closed THEN fds \cup {fd} ELSE fds
             /\ chk' = [done |-> TRUE, call |-> "process_path2", answer |-> a, ancestor |-> a.mode = "S_IFDIR" /\ \E k \in 1..Len(stack) : stack[k].st = a.st, entered |-> r.enter, err |-> r.err, fd |-> IF r.opened THEN fd ELSE -1, entry_count |-> parents.count, exit_count |-> IF r.enter THEN parents.count ELSE r.dirs.count]
             /\ IF r.enter THEN stack' = Append(s, [st |-> a.st, fd |-> fd, left |-> a.entries, ret |-> 0, brk |-> FALSE, count |-> parents.count]) /\ pc' = "check_dir" /\ ret' = ret
                ELSE IF r.err = ABORT_STATUS THEN stack' = s /\ pc' = "abort" /\ ret' = ret
                ELSE stack' = Returned(s, r.err).stack /\ pc' = Returned(s, r.err).pc /\ ret' = Returned(s, r.err).ret
    /\ UNCHANGED <<args, argc, exit_status, content, mtime, xattrs, corrupt_seen, worst>>

\* readdir returns "." or "..": check_dir goes on to the next entry.
readdir_dot ==
    /\ pc = "check_dir" /\ stack[Len(stack)].left > 0 /\ ~stack[Len(stack)].brk
    /\ stack' = [stack EXCEPT ![Len(stack)].left = @ - 1]
    /\ chk' = NoCall
    /\ UNCHANGED <<args, argc, ret, pc, exit_status, content, mtime, xattrs, corrupt_seen, worst, parents, fds>>

\* asprintf fails on the next entry: ret = -1 and the loop is left.
asprintf_fails ==
    /\ pc = "check_dir" /\ stack[Len(stack)].left > 0 /\ ~stack[Len(stack)].brk
    /\ stack' = [stack EXCEPT ![Len(stack)] = [@ EXCEPT !.left = @ - 1, !.ret = -1, !.brk = TRUE]]
    /\ chk' = NoCall
    /\ UNCHANGED <<args, argc, ret, pc, exit_status, content, mtime, xattrs, corrupt_seen, worst, parents, fds>>

\* The loop of check_dir is over (readdir returned NULL, or break): lines
\* 420-424, the directory leaves parents, closedir, and ret goes back to
\* the caller.
check_dir_return ==
    /\ pc = "check_dir" /\ (stack[Len(stack)].left = 0 \/ stack[Len(stack)].brk)
    /\ \E top \in {stack[Len(stack)]}, s \in {SubSeq(stack, 1, Len(stack) - 1)} :
          /\ parents' = [parents EXCEPT !.count = @ - 1, !.data[parents.count] = [@ EXCEPT !.inode = 0]]
          /\ fds' = fds \ {top.fd}
          /\ chk' = [NoCall EXCEPT !.done = TRUE, !.call = "check_dir", !.err = top.ret, !.fd = top.fd, !.entry_count = top.count, !.exit_count = parents.count - 1]
          /\ stack' = Returned(s, top.ret).stack /\ pc' = Returned(s, top.ret).pc /\ ret' = Returned(s, top.ret).ret
    /\ UNCHANGED <<args, argc, exit_status, content, mtime, xattrs, corrupt_seen, worst>>

\* process_path has returned (free(parents.data)) and main calls it on the
\* next path, or the process has aborted and b2tag is started again.
next_path ==
    /\ pc = "returned" \/ pc = "abort"
    /\ pc' = "process_path"
    /\ ret' = 0
    /\ chk' = NoCall
    /\ stack' = <<>>
    /\ parents' = NoParents
    /\ fds' = IF pc = "abort" THEN {} ELSE fds
    /\ UNCHANGED <<args, argc, exit_status, content, mtime, xattrs, corrupt_seen, worst>>

NextWalk == process_path2_call \/ readdir_dot \/ asprintf_fails \/ check_dir_return \/ next_path

SpecWalk == InitWalk /\ [][NextWalk]_vars

\* The program runs on: every step of it that can be taken is taken.
SpecWalkFair == SpecWalk /\ WF_vars(NextWalk)

(* ------------------------------ properties ----------------------------- *)

\* The last step was a check that met no injected failure of a system call.
Clean == chk.done /\ chk.fault = NoFault

\* The attributes hold no record at all.
NoRecord(x) == DOMAIN x = {}

\* The digest attribute is there and malformed: not 2 x digest size
\* characters long, or a character that is no hex digit.
MalformedDigest(x) == CHECKSUM_XATTR \in DOMAIN x /\ (Len(x[CHECKSUM_XATTR]) # 2 * get_alg_size \/ \E k \in 1..Len(x[CHECKSUM_XATTR]) : ~isxdigit(x[CHECKSUM_XATTR][k]))

\* The record the attributes x hold, as xa_read gives it.
ReadBack(x) == xa_read(x, xa_zero(get_alg_name), "none", "none", 0)

\* The check read a record ok and computed the digest of the content.
BothKnown == chk.done /\ chk.xa_ret = 0 /\ chk.stored.valid /\ chk.hashed /\ ~chk.abort /\ chk.actual.valid

\* C1: in every check in which the stored record reads ok and the current
\* digest is computed, get_file_state returns OK when the digests are equal
\* and the timestamps compare equal, SAME when the digests are equal and the
\* timestamps differ, OUTDATED when the digests differ and the live mtime
\* compares newer than the stored one, BACKDATED when they differ and it
\* compares older, CORRUPT when they differ and the timestamps compare equal.
C1_Classification ==
    BothKnown =>
        /\ chk.actual.hash = fhash(content)
        /\ chk.stored.hash = chk.actual.hash /\ chk.comparison = 0 => chk.state = "OK"
        /\ chk.stored.hash = chk.actual.hash /\ chk.comparison # 0 => chk.state = "SAME"
        /\ chk.stored.hash # chk.actual.hash /\ chk.comparison < 0 => chk.state = "OUTDATED"
        /\ chk.stored.hash # chk.actual.hash /\ chk.comparison > 0 => chk.state = "BACKDATED"
        /\ chk.stored.hash # chk.actual.hash /\ chk.comparison = 0 => chk.state = "CORRUPT"

\* A check found the digests different and the live mtime older.
C1_Witness == BothKnown /\ chk.stored.hash # chk.actual.hash /\ chk.comparison > 0 /\ chk.state = "BACKDATED"

\* The check read a record ok whose timestamp is the live mtime and whose
\* digest is not the digest of the content, and the content can be read.
ChangedInPlace == chk.done /\ chk.fault.at # "read" /\ chk.xa_ret = 0 /\ chk.stored.valid /\ chk.stored.mtime = mtime /\ chk.stored.hash # fhash(content)

C3_AsClaimed ==
    /\ Clean /\ NoRecord(chk.before) => chk.state = "NEW"
    /\ Clean /\ NoRecord(chk.before) /\ ~args.dry_run /\ chk.write = "ok" => ReadBack(xattrs).ret = 0 /\ ReadBack(xattrs).xa.hash = fhash(content) /\ ReadBack(xattrs).xa.mtime = mtime
    /\ Clean /\ chk.wrote_as = "NEW" /\ chk.since = 1 => chk.state = "OK"

\* C4, as the claim states it: after any check that successfully wrote a
\* record, two further checks of the file with no intervening modification
\* both yield OK, and neither performs an attribute write.
C4_AsClaimed == Clean /\ chk.wrote_as # "none" /\ chk.since \in {1, 2} => chk.state = "OK" /\ chk.write = "none"

\* C5: with dry-run set, check_file performs no attribute write, whatever the
\* classification and whatever force is.
C5_DryRun == chk.done /\ args.dry_run => chk.write = "none" /\ xattrs = chk.before

\* With dry-run and force both set a file was found CORRUPT.
C5_Witness == chk.done /\ args.dry_run /\ args.force /\ chk.state = "CORRUPT" /\ chk.write = "none"

\* C6, as the claim states it: for every check classified BACKDATED,
\* CORRUPT, INVALID or FAULT, with force unset no attribute write occurs, and
\* with force set and dry-run unset a record write is attempted.
C6_AsClaimed ==
    chk.done /\ chk.state \in {"BACKDATED", "CORRUPT", "INVALID", "FAULT"} =>
        /\ ~args.force => chk.write = "none" /\ xattrs = chk.before
        /\ args.force /\ ~args.dry_run => chk.write # "none"

\* C7: for every check classified NEW, OUTDATED or SAME with dry-run unset,
\* check_file attempts a write of the record {current digest, live mtime},
\* whether or not force is set.
C7_Update ==
    chk.done /\ chk.state \in {"NEW", "OUTDATED", "SAME"} /\ ~args.dry_run =>
        /\ chk.write \in {"ok", "failed", "partial"}
        /\ chk.actual.valid /\ chk.actual.hash = fhash(content) /\ chk.actual.mtime = mtime
        /\ chk.write = "ok" => xattrs = xa_write(chk.before, chk.actual, "none", "none").xattrs

\* Without force and without dry-run a file found SAME got its record written.
C7_Witness == chk.done /\ chk.state = "SAME" /\ ~args.force /\ ~args.dry_run /\ chk.write = "ok"

\* C8, as the claim states it: a stored digest attribute that is malformed
\* makes the check classify the file INVALID without crashing, and the
\* current digest is still computed.
C8_AsClaimed == Clean /\ MalformedDigest(chk.before) => chk.state = "INVALID" /\ ~chk.abort /\ chk.hashed /\ chk.actual.hash = fhash(content)

\* xa_read failed, and not with 'absent'.
ReadFailed == chk.done /\ chk.state # "none" /\ chk.xa_ret # 0 /\ chk.xa_ret # 1

C10_AsClaimed == pc = "exited" /\ corrupt_seen => exit_status # 0

\* C11, as the claim states it: when get_file_state returns FAULT for a
\* file, the check yields a positive (recoverable, per-file) result and the
\* run goes on to the remaining paths.
C11_AsClaimed == chk.done /\ chk.state = "FAULT" => chk.ret > 0 /\ pc = "main"

\* The path of the last step could not be opened, could not be stat'ed, is
\* no regular file, had its record write fail, or had a read of its content
\* fail while the digest was computed.
PathFailed == chk.done /\ (chk.fault.at \in {"open", "fstat", "S_ISREG", "read"} \/ chk.write \in {"failed", "partial", "refused"})

\* C12, as the claim states it: for every path that cannot be opened,
\* cannot be stat'ed, is not a regular file, whose record write fails, or
\* whose digest computation hits an I/O error, the loop of main goes on to
\* the later paths, the status main is going to return is non-zero from then
\* on, and the exit status of a process that saw a positive result is
\* non-zero.
C12_AsClaimed ==
    /\ PathFailed => pc = "main"
    /\ PathFailed /\ pc # "abort" => ret # 0
    /\ pc = "exited" /\ worst > 0 => exit_status # 0

\* The record write of the last check failed.
WriteFailed == chk.done /\ chk.write \in {"failed", "partial", "refused"}

\* C13: when the record write fails after a file was classified, check_file
\* returns 2, a positive result that no check returns for a BACKDATED,
\* CORRUPT or INVALID file whose write did not fail (those return 0 or 1),
\* and the loop of main goes on to the next file.
C13_WriteFailure ==
    /\ WriteFailed => chk.state \notin {"none", "OK", "FAULT"} /\ chk.ret = 2 /\ pc = "main" /\ ret > 0
    /\ chk.done /\ ~WriteFailed /\ chk.state \in {"BACKDATED", "CORRUPT", "INVALID"} => chk.ret \in {0, 1}

\* The forced write for a CORRUPT file failed and another path is waiting.
C13_Witness == WriteFailed /\ chk.state = "CORRUPT" /\ chk.ret = 2 /\ pc = "main" /\ argc = 1

\* C14, as the claim states it: for every valid record with nanoseconds in
\* 0..999999999 that xa_write has written, xa_read on the same file returns
\* ok with the identical digest string, identical seconds and nanoseconds,
\* valid set and fuzzy unset.
C14_AsClaimed ==
    chk.done /\ chk.write = "ok" /\ chk.actual.valid /\ chk.actual.mtime.nsec >= 0 /\ chk.actual.mtime.nsec < NSEC_PER_SEC =>
        /\ ReadBack(xattrs).ret = 0
        /\ ReadBack(xattrs).xa.hash = chk.actual.hash
        /\ ReadBack(xattrs).xa.mtime.sec = chk.actual.mtime.sec
        /\ ReadBack(xattrs).xa.mtime.nsec = chk.actual.mtime.nsec
        /\ ReadBack(xattrs).xa.valid
        /\ ~ReadBack(xattrs).xa.fuzzy

\* The stored timestamp has microsecond precision (fewer than nine digits
\* read, so the record is fuzzy, and no nanoseconds below the microsecond),
\* and the live mtime lies in the same second and the same microsecond.
SameMicrosecond ==
    /\ chk.done /\ chk.xa_ret = 0 /\ chk.stored.valid /\ chk.stored.fuzzy
    /\ chk.stored.mtime.nsec % 1000 = 0
    /\ chk.stored.mtime.sec = chk.actual.mtime.sec
    /\ chk.stored.mtime.nsec \div 1000 = chk.actual.mtime.nsec \div 1000

\* C15: for a stored timestamp of microsecond precision, marked fuzzy, and a
\* live timestamp in the same second that differs from it only in the
\* nanosecond digits below the microsecond, ts_compare returns 0.
C15_Fuzzy == SameMicrosecond => chk.comparison = 0 /\ ts_compare(chk.stored.mtime, chk.actual.mtime, chk.stored.fuzzy, FALSE) = 0

\* A fuzzy stored timestamp met a live mtime 999 ns later and compared equal.
C15_Witness == SameMicrosecond /\ chk.actual.mtime.nsec = chk.stored.mtime.nsec + 999 /\ chk.comparison = 0

\* C16, as the claim states it: a file classified CORRUPT always has its
\* state printed, at every verbosity level.
C16_AsClaimed == chk.done /\ chk.state = "CORRUPT" => chk.printed = "state"

\* C17, as the claim states it: the exit status of a process that was not
\* aborted is the largest per-path result of the run.
C17_AsClaimed == pc = "exited" /\ exit_status # ABORT_STATUS => exit_status = worst

\* The last check read a stored record ok.
StoredOk == chk.done /\ chk.xa_ret = 0 /\ chk.stored.valid

\* C18: for a stored record that reads ok, the digest of the file is
\* computed during the check if and only if the stored and the live
\* timestamp compare unequal or check mode is on; when they compare equal
\* and check mode is off the state is OK and no content of the file is read.
C18_QuickCheck ==
    /\ StoredOk => (chk.hashed <=> (chk.comparison # 0 \/ args.check))
    /\ StoredOk /\ chk.comparison = 0 /\ ~args.check => chk.state = "OK" /\ ~chk.hashed /\ ~chk.actual.valid /\ chk.fault.at # "read" /\ chk.ret = 0

\* Equal timestamps, no check mode: the file is OK although its content is
\* not the content the stored digest is of.
C18_Witness == StoredOk /\ chk.comparison = 0 /\ ~args.check /\ chk.state = "OK" /\ ~chk.hashed /\ chk.stored.hash # fhash(content)

\* C19, as the claim states it: the live mtime is captured before any
\* content is read, so when another program changes the content and advances
\* the mtime after the capture, the record written carries the captured
\* mtime, not the later one, and the next check of the file as it is then
\* does not take the quick check: it computes the digest and finds the file
\* SAME or OUTDATED.
C19_AsClaimed ==
    /\ chk.done /\ chk.raced /\ chk.since = 0 /\ chk.write = "ok" => chk.actual.mtime # mtime /\ ReadBack(xattrs).ret = 0 /\ ReadBack(xattrs).xa.mtime = chk.actual.mtime
    /\ Clean /\ chk.raced /\ chk.wrote_as # "none" /\ chk.since = 1 => chk.hashed /\ chk.state \in {"SAME", "OUTDATED"}

\* Records xa_write must refuse: never filled, cleared by a failed read, and
\* the record of the last check with valid unset.
InvalidRecords == {xa_zero(get_alg_name), xa_clear(xa_zero(get_alg_name)), [chk.actual EXCEPT !.valid = FALSE]}

\* x with the digest attribute set to the digest of the record xa.
WithChecksum(x, xa) == xa_write_xattr(x, CHECKSUM_XATTR, xa.hash, "none").xattrs

\* C20: xa_write writes the digest attribute before the timestamp
\* attribute, so a write that stops half way has set the digest and left
\* the timestamp as it was; it does not write the timestamp when the digest
\* write fails; and for a record that is not valid it returns an error and
\* writes neither attribute.
C20_WriteOrder ==
    /\ chk.done /\ chk.fault.at = "setxattr_sum" => chk.write = "failed" /\ xattrs = chk.before
    /\ chk.done /\ chk.fault.at = "setxattr_ts" => chk.write = "partial" /\ xattrs = WithChecksum(chk.before, chk.actual)
    /\ chk.done /\ chk.write = "ok" => xattrs = xa_write_xattr(WithChecksum(chk.before, chk.actual), TIMESTAMP_XATTR, FormatTimestamp(chk.actual.mtime), "none").xattrs
    /\ chk.done => chk.write \in {"none", "failed", "partial", "ok"}
    /\ \A xa \in InvalidRecords : xa_write(xattrs, xa, "none", "none") = [ret |-> -22, xattrs |-> xattrs, wrote |-> 0]

\* The timestamp write failed on a file without attributes: the digest is
\* set, the timestamp is not.
C20_Witness == chk.done /\ chk.write = "partial" /\ DOMAIN chk.before = {} /\ DOMAIN xattrs = {CHECKSUM_XATTR} /\ xattrs[CHECKSUM_XATTR] = fhash(content)

\* C21: if xa_write wrote the digest attribute and then failed to write the
\* timestamp attribute, every later check of the unmodified file that
\* reaches a state finds it NEW, SAME, OK or INVALID (or FAULT, when reading
\* the attributes fails), never OUTDATED, BACKDATED or CORRUPT.
C21_TornRecord == chk.done /\ chk.torn => chk.state \in {"NEW", "SAME", "OK", "INVALID", "FAULT", "none"} /\ (chk.hashed /\ ~chk.abort => chk.stored.hash \in {chk.actual.hash, xa_clear(chk.stored).hash})

\* After a torn write over an older record, check mode finds the digests
\* equal and the timestamps different.
C21_Witness == chk.done /\ chk.torn /\ args.check /\ chk.state = "SAME" /\ chk.stored.hash = fhash(content) /\ chk.fault = NoFault

\* xa_read was called and no fgetxattr failed.
CleanRead == chk.done /\ chk.fault = NoFault

\* C22: xa_read returns 1 (absent, state NEW) exactly when neither the
\* timestamp attribute nor the digest attribute is present on the file.
C22_AsClaimed == CleanRead => (chk.xa_ret = 1 <=> NoRecord(chk.before))

\* Position of the first '.' of s, 0 when it has none.
DotAt(s) == IF \E i \in 1..Len(s) : s[i] = "." THEN CHOOSE i \in 1..Len(s) : s[i] = "." /\ \A j \in 1..(i - 1) : s[j] # "." ELSE 0

\* s is one decimal digit or more.
AllDigits(s) == Len(s) >= 1 /\ \A i \in 1..Len(s) : isdigit(s[i])

\* The stored timestamp as the claim reads it: the seconds, the number k of
\* digits of the fraction and their value d; k = 0 when there is no '.'.
\* shaped: whole seconds, or whole seconds, '.' and one digit or more.
Reading(s) ==
    LET split(dot) ==
            IF dot = 0 THEN [shaped |-> AllDigits(s), sec |-> IF AllDigits(s) THEN DecValue(s, 1, Len(s)) ELSE 0, k |-> 0, d |-> 0]
            ELSE [shaped |-> AllDigits(SubSeq(s, 1, dot - 1)) /\ AllDigits(SubSeq(s, dot + 1, Len(s))), sec |-> IF AllDigits(SubSeq(s, 1, dot - 1)) THEN DecValue(s, 1, dot - 1) ELSE 0, k |-> Len(s) - dot, d |-> IF AllDigits(SubSeq(s, dot + 1, Len(s))) /\ Len(s) - dot <= 9 THEN DecValue(s, dot + 1, Len(s)) ELSE 0]
    IN  split(DotAt(s))

\* The timestamp xa_read_timestamp is claimed to yield for the reading r.
Claimed(r) == [result |-> "E_OK", mtime |-> [sec |-> r.sec, nsec |-> r.d * Pow10(9 - r.k)], truncated |-> r.k < 9]

\* C23: xa_read_timestamp accepts whole seconds optionally followed by '.'
\* and 1 to 9 digits; a fraction of k digits with value d gives
\* d * 10^(9-k) nanoseconds and is fuzzy exactly when k < 9; a fraction of
\* 10 digits or more is rejected as corrupt.
C23_AsClaimed ==
    CleanRead /\ TIMESTAMP_XATTR \in DOMAIN chk.before =>
        \A r \in {Reading(chk.before[TIMESTAMP_XATTR])} :
            /\ r.shaped /\ r.k = 0 => chk.ts.result = "E_OK" /\ chk.ts.mtime = Claimed(r).mtime
            /\ r.shaped /\ r.k \in 1..9 => chk.ts.result = "E_OK" /\ chk.ts.mtime = Claimed(r).mtime /\ chk.ts.truncated = Claimed(r).truncated
            /\ r.shaped /\ r.k >= 10 => chk.ts.result = "E_INVALID"

\* C25: whenever xa_read returns 0, the digest of the record is exactly
\* 2 x digest size lowercase hex characters and its nanoseconds are at
\* least 0 and below 1,000,000,000.
C25_AsClaimed ==
    chk.done /\ chk.xa_ret = 0 =>
        /\ Len(chk.stored.hash) = 2 * get_alg_size
        /\ \A k \in 1..Len(chk.stored.hash) : \E i \in 1..16 : hexval[i] = chk.stored.hash[k]
        /\ chk.stored.mtime.nsec >= 0
        /\ chk.stored.mtime.nsec < NSEC_PER_SEC

\* C26: after xa_read returned non-zero the record is the cleared
\* placeholder (not valid, not fuzzy, mtime 0, digest all '0', alg as handed
\* in), also when the timestamp had parsed before the digest failed; the
\* record is valid only when xa_read returned 0.
C26_Cleared ==
    chk.done =>
        /\ chk.xa_ret # 0 => chk.stored = [valid |-> FALSE, fuzzy |-> FALSE, mtime |-> [sec |-> 0, nsec |-> 0], alg |-> chk.given.alg, hash |-> [k \in 1..(2 * get_alg_size) |-> "0"]]
        /\ chk.stored.valid => chk.xa_ret = 0

\* A fuzzy timestamp parsed, then the digest attribute was malformed, and
\* the record handed in held an older read.
C26_Witness == chk.done /\ chk.given.valid /\ chk.ts.result = "E_OK" /\ chk.ts.truncated /\ chk.ts.mtime.sec # 0 /\ MalformedDigest(chk.before) /\ chk.xa_ret = 2

\* C24: when the stored record is not fuzzy, ts_compare reports the stored
\* and the live timestamp equal only if their seconds and their nanoseconds
\* are identical.
C24_AsClaimed == chk.done /\ chk.xa_ret = 0 /\ chk.stored.valid /\ ~chk.stored.fuzzy /\ chk.comparison = 0 => chk.stored.mtime = chk.actual.mtime

\* C27: when the digest computation fails on a read error the file is not
\* classified OUTDATED, BACKDATED or CORRUPT, and the failure is a per-file
\* error (a non-zero result of the path), not a crash.
C27_AsClaimed == chk.done /\ chk.fault.at = "read" => chk.state \notin {"OUTDATED", "BACKDATED", "CORRUPT"} /\ ~chk.abort /\ pc # "abort" /\ chk.ret # 0

\* C29: when a path returns a negative result that ends the run, the exit
\* status (the ret main returns at line 222) is non-zero.
C29_AsClaimed == pc = "return" => ret # 0

\* The descriptors of the check_dir calls in progress.
InProgress == {stack[k].fd : k \in 1..Len(stack)}

\* C28: every descriptor process_path2 opened is closed by the time the
\* call returns, on every exit path: the only descriptors open are those
\* of check_dir calls that have not returned, the descriptor of a call or
\* of a check_dir that returned is closed, and none is open when
\* process_path has returned.
C28_Closed ==
    pc # "abort" =>
        /\ fds = InProgress
        /\ chk.done /\ chk.call = "process_path2" /\ ~chk.entered => chk.fd \notin fds
        /\ chk.done /\ chk.call = "check_dir" => chk.fd \notin fds
        /\ pc = "returned" => fds = {}

\* Two directories down, the next entry is one of them again: the loop is
\* detected and the descriptor opened for the entry is closed.
C28_Witness == chk.done /\ chk.call = "process_path2" /\ chk.ancestor /\ ~chk.entered /\ chk.fd >= 3 /\ chk.fd \notin fds /\ Len(stack) = 2

\* No directory is read twice on the ancestor path, a directory that is on
\* it is not entered and gives 1, parents->count is the number of
\* check_dir calls in progress and is on return what it was on entry.
WalkSafe ==
    /\ \A j, k \in 1..Len(stack) : stack[j].st = stack[k].st => j = k
    /\ chk.done /\ chk.ancestor => ~chk.entered /\ chk.err = 1
    /\ parents.count = Len(stack)
    /\ \A k \in 1..Len(stack) : stack[k].count = k - 1 /\ parents.data[k] = stack[k].st
    /\ chk.done => chk.exit_count = chk.entry_count

\* C30: recursive processing terminates, also where a directory is
\* reachable from itself: a directory whose (device, inode) pair is that of
\* a directory on the ancestor path is not descended into and yields 1, the
\* ancestor stack is as long on return from check_dir as on entry, and
\* every call of process_path comes to its end.
C30_Terminates == []WalkSafe /\ (pc = "process_path" ~> (pc = "returned" \/ pc = "abort"))

\* Inside the second of two nested directories an entry is the first one
\* again: check_dir detects the loop and returns 1 to the loop of the
\* second directory, with parents->count still 2.
C30_Witness == chk.done /\ chk.call = "process_path2" /\ chk.ancestor /\ ~chk.entered /\ chk.err = 1 /\ Len(stack) = 2 /\ chk.answer.st = stack[1].st /\ stack[2].ret = 1 /\ parents.count = 2 /\ chk.entry_count = 2 /\ chk.exit_count = 2

====
